---- MODULE Spec2Model ----
(***************************************************************************)
(* AudioFileSourceHTTPStream (src/src/AudioFileSourceHTTPStream.cpp): the  *)
(* streaming HTTP source with regular and chunked read strategies, the     *)
(* reconnect loop and the position / eof bookkeeping.                      *)
(*                                                                         *)
(* Bytes are one-character strings; "CR" and "LF" stand for \r and \n.     *)
(* The HTTP client and its socket (http, client) are the transport: the    *)
(* model keeps whether it is connected, the bytes available to read (rx)   *)
(* and the packets of the body that have not arrived yet (wire).           *)
(***************************************************************************)
EXTENDS Integers, Sequences, FiniteSets, TLC

\* ------------------------------------------------------------ bounds
\* Largest read length a caller passes.
MaxLen == 2
\* Largest reconnectTries a caller configures.
MaxTries == 1
\* Cap on the "goto retry" jumps followed inside one read call.
MaxRetries == 2
\* Largest read length of the caller that reads the "Wikipedia" body.
WikiMaxLen == 10

\* ------------------------------------------------------------ bytes
CR == "CR"
LF == "LF"

Min(a, b) == IF a < b THEN a ELSE b
\* The first n elements of s (all of s when it is shorter), and the rest.
Take(s, n) == SubSeq(s, 1, Min(n, Len(s)))
DropN(s, n) == SubSeq(s, Min(n, Len(s)) + 1, Len(s))

\* Index of the first c in s, 0 when there is none.
IndexOf(s, c) ==
  IF \E i \in 1..Len(s) : s[i] = c
  THEN CHOOSE i \in 1..Len(s) : s[i] = c /\ \A j \in 1..(i - 1) : s[j] # c
  ELSE 0

\* Stream::readStringUntil(c): the bytes before the first c; c itself is
\* consumed and dropped.  With no c in the stream the timed read gives up and
\* everything that arrived is returned.
ReadStringUntil(s, c) ==
  LET i == IndexOf(s, c)
  IN IF i = 0 THEN [str |-> s, rest |-> <<>>]
              ELSE [str |-> Take(s, i - 1), rest |-> DropN(s, i)]

HexDigits == <<"0", "1", "2", "3", "4", "5", "6", "7", "8", "9",
               "a", "b", "c", "d", "e", "f">>
IsHex(c) == \E i \in 1..16 : HexDigits[i] = c
HexVal(c) == (CHOOSE i \in 1..16 : HexDigits[i] = c) - 1

\* sscanf's %x skips leading white space (LF is the only white space a line
\* can hold here: readStringUntil stopped at the first CR).
RECURSIVE SkipSpace(_)
SkipSpace(s) == IF s # <<>> /\ s[1] = LF THEN SkipSpace(Tail(s)) ELSE s

\* acc * 16 + d in an unsigned int, held as the int of the same 32 bits.
Shl4(acc, d) ==
  LET low == acc % (2 ^ 28)
  IN (IF low >= 2 ^ 27 THEN low - 2 ^ 28 ELSE low) * 16 + d

\* The longest prefix of hexadecimal digits, folded into a number.
RECURSIVE HexPrefix(_, _)
HexPrefix(s, acc) ==
  IF s # <<>> /\ IsHex(s[1]) THEN HexPrefix(Tail(s), Shl4(acc, HexVal(s[1])))
  ELSE acc

\* sscanf(length.c_str(), "%x", &val): ret is EOF (-1) when the input ends
\* before a conversion, 0 on a matching failure, 1 on a conversion; val
\* keeps its initial 0 unless a conversion happened.  val is an unsigned int
\* and getChunkSize returns it as an int: it is held here as that int.
Sscanf(line) ==
  LET s == SkipSpace(line)
  IN IF s = <<>> THEN [ret |-> -1, val |-> 0]
     ELSE IF IsHex(s[1]) THEN [ret |-> 1, val |-> HexPrefix(s, 0)]
     ELSE [ret |-> 0, val |-> 0]

\* What the chunk-size line was, by the result of sscanf: hexadecimal, not
\* hexadecimal, or blank.
LineKind(ret) ==
  IF ret = 1 THEN "hex" ELSE IF ret = 0 THEN "nothex" ELSE "blank"

\* A getChunkSize() that stops at the carriage return and leaves the line
\* feed of the chunk-size line in the stream.
getChunkSize_keepLf(buf) ==
  IF buf = <<>> THEN [val |-> -1, rest |-> <<>>, kind |-> "timeout"]
  ELSE LET length == ReadStringUntil(buf, CR)
           sc == Sscanf(length.str)
       IN [val |-> IF sc.ret # 0 THEN sc.val ELSE -1, rest |-> length.rest,
           kind |-> LineKind(sc.ret)]

\* getChunkSize() on the bytes that are available when its wait ends:
\* the chunk size (or -1), the bytes left in the stream, and what the line
\* was ("timeout" when there was none).
getChunkSize(buf) ==
  IF buf = <<>> THEN [val |-> -1, rest |-> <<>>, kind |-> "timeout"]
  ELSE LET length == ReadStringUntil(buf, CR)
           lf == ReadStringUntil(length.rest, LF)
           sc == Sscanf(length.str)
       IN [val |-> IF sc.ret # 0 THEN sc.val ELSE -1, rest |-> lf.rest,
           kind |-> LineKind(sc.ret)]

\* verifyCrlf(): client.read(crlf, 2) then strncmp with "\r\n".  got are the
\* bytes the read delivered, junk what the uninitialised part of crlf[] held.
CrlfBuffer(got, junk) ==
  <<IF Len(got) >= 1 THEN got[1] ELSE junk[1],
    IF Len(got) >= 2 THEN got[2] ELSE junk[2]>>
verifyCrlf(got, junk) == CrlfBuffer(got, junk) = <<CR, LF>>

\* ------------------------------------------------------------ uint32_t
\* len is uint32_t, pos, size and next_chunk are int.  A comparison of the
\* two converts the int to uint32_t: a negative d becomes 2^32 + d >= 2^31,
\* above every length of this model.
GtU32(a, d) == IF d < 0 THEN FALSE ELSE a > d
GeU32(a, d) == IF d < 0 THEN FALSE ELSE a >= d

\* "Can't read past EOF...": if ((size > 0) && (len > (uint32_t)(pos - size)))
\* len = pos - size;
ClampLen(len, p, sz) ==
  IF sz > 0 /\ GtU32(len, p - sz) THEN p - sz ELSE len

\* ------------------------------------------------------------ transport
HTTP_CODE_OK == 200
HTTP_CODE_NOT_FOUND == 404

\* What a server answers to GET: the status code, the Transfer-Encoding
\* header ("none" when absent), http.getSize(), the body it will send and
\* the least number of its packets that have arrived when open() looks
\* at the stream (0 for a server that may be late).
Response(code, te, sz, body, first) ==
  [code |-> code, te |-> te, size |-> sz, body |-> body, first |-> first]

\* A body is the sequence of packets it arrives in.
RegularBody == << <<"W", "i">>, <<"k", "i">> >>
\* "2\r\nWi\r\n0\r\n\r\n"
ChunkedGood == << <<"2", CR, LF>>, <<"W">>, <<"i", CR, LF>>,
                  <<"0", CR, LF, CR, LF>> >>
\* chunk "W" followed by "ik" where the delimiter belongs
ChunkedBadCrlf == << <<"1", CR, LF, "W">>, <<"i", "k">> >>
\* the delimiter arrives in two halves; the second chunk-size line, "k", is
\* not hexadecimal
ChunkedBadHeader == << <<"1", CR, LF, "W", CR>>, <<LF, "k", CR, LF>> >>
\* the first chunk-size line is not hexadecimal
ChunkedBadFirst == << <<"k", CR, LF>> >>
\* chunk "W" and its delimiter, then a blank line, a line that is not
\* hexadecimal, or a chunk size of eight hexadecimal digits
HdrBlank == << <<"1", CR, LF, "W", CR, LF>>, <<CR, LF>> >>
HdrNotHex == << <<"1", CR, LF, "W", CR, LF>>, <<"k", CR, LF>> >>
HdrWide == << <<"1", CR, LF, "W", CR, LF>>,
              <<"f", "f", "f", "f", "f", "f", "f", "f", CR, LF>> >>
\* "4\r\nWiki\r\n5\r\npedia\r\n0\r\n\r\n"
WikiBody == << <<"4", CR, LF, "W", "i", "k", "i", CR, LF,
                 "5", CR, LF, "p", "e", "d", "i", "a", CR, LF,
                 "0", CR, LF, CR, LF>> >>
Wikipedia == <<"W", "i", "k", "i", "p", "e", "d", "i", "a">>

\* The bytes of the first k packets of a body.
RECURSIVE Arrived(_, _)
Arrived(packets, k) ==
  IF k = 0 \/ packets = <<>> THEN <<>>
  ELSE Head(packets) \o Arrived(Tail(packets), k - 1)

\* The answers a server gives.  A body of which nothing ever arrives is any
\* of these bodies with its packets left on the wire.
Responses ==
  {Response(HTTP_CODE_NOT_FOUND, "none", -1, <<>>, 0),
   Response(HTTP_CODE_OK, "none", -1, RegularBody, 0),
   Response(HTTP_CODE_OK, "identity", 2, RegularBody, 0),
   Response(HTTP_CODE_OK, "chunked", -1, ChunkedGood, 1),
   Response(HTTP_CODE_OK, "chunked", -1, ChunkedBadCrlf, 1),
   Response(HTTP_CODE_OK, "chunked", -1, ChunkedBadHeader, 1),
   Response(HTTP_CODE_OK, "chunked", -1, ChunkedBadFirst, 0)}
WikiResponse == Response(HTTP_CODE_OK, "chunked", -1, WikiBody, 1)
HeaderResponses ==
  {Response(HTTP_CODE_OK, "chunked", -1, b, 1) :
     b \in {ChunkedGood, HdrBlank, HdrNotHex, HdrWide}}

Urls == {"u"}

\* ------------------------------------------------------------ state
VARIABLES
  pos, size, next_chunk, eof, is_chunked, readImpl, reconnectTries, saveURL,
  connected, rx, wire,
  pc, frame,
  obs, out

prog == <<pos, size, next_chunk, eof, is_chunked, readImpl, reconnectTries,
          saveURL>>
transport == <<connected, rx, wire>>
vars == <<pos, size, next_chunk, eof, is_chunked, readImpl, reconnectTries,
          saveURL, connected, rx, wire, pc, frame, obs, out>>

\* What a call starts from: eof, whether the transport is connected,
\* whether it has no byte available, whether the chunk is drained, and the
\* read strategy readImpl points to.
Pre ==
  [eof |-> eof, connected |-> connected, nodata |-> (rx = <<>>),
   drained |-> (next_chunk = 0), impl |-> readImpl]

\* What the call that is running or has just returned did, kept until the
\* caller has taken the result: its result (ret for a count, ok for a bool), the
\* statuses and diagnostics it emitted since it last passed the label retry
\* of readInternal (st), the waits it entered, the
\* open(saveURL) attempts it made, the goto retry jumps, the bytes
\* stream->read stored in the caller's buffer (copied), the bytes
\* client.read delivered to verifyCrlf (got), the outcome of verifyCrlf (crlf),
\* the number of chunk-size headers readChunked parsed (hdrs) and what the
\* last of them was (hdr).
NoObs ==
  [op |-> "none", nonBlock |-> FALSE, len |-> 0, ok |-> TRUE, ret |-> 0,
   st |-> <<>>, waits |-> {}, opens |-> 0, retries |-> 0,
   copied |-> <<>>, got |-> <<>>, crlf |-> "none", hdrs |-> 0,
   hdr |-> "none",
   pre |-> [eof |-> FALSE, connected |-> FALSE, nodata |-> TRUE,
            drained |-> TRUE, impl |-> "unset"]]

\* Where a read call stands while it is in the reconnect loop: the branch it
\* took (regular, or in readChunked drain for len >= next_chunk and part
\* for len < next_chunk), the length it passed to readInternal and the loop
\* counter i.
NoFrame == [path |-> "none", rlen |-> 0, i |-> 0]

\* The object, its transport and what the running call has done so far, as
\* one value the steps of a call pass along.
Machine ==
  [pos |-> pos, size |-> size, next_chunk |-> next_chunk, eof |-> eof,
   is_chunked |-> is_chunked, readImpl |-> readImpl, saveURL |-> saveURL,
   connected |-> connected, rx |-> rx, wire |-> wire, obs |-> obs,
   out |-> out]

\* The step ends in configuration c: the machine c.m at position c.pc.
Becomes(c) ==
  /\ pos' = c.m.pos
  /\ size' = c.m.size
  /\ next_chunk' = c.m.next_chunk
  /\ eof' = c.m.eof
  /\ is_chunked' = c.m.is_chunked
  /\ readImpl' = c.m.readImpl
  /\ saveURL' = c.m.saveURL
  /\ connected' = c.m.connected
  /\ rx' = c.m.rx
  /\ wire' = c.m.wire
  /\ obs' = c.m.obs
  /\ out' = c.m.out
  /\ pc' = c.pc
  /\ frame' = c.frame
  /\ UNCHANGED reconnectTries

isOpen == connected /\ ~eof

\* No call is running and the caller has taken the last call's result.
Ready == pc = "idle" /\ obs = NoObs

\* AudioFileSourceHTTPStream() leaves size, is_chunked and readImpl unset: no
\* code reads them before open() has set them, and "unset" is a value no
\* comparison of the model accepts.  AudioFileSourceHTTPStream(url) also
\* leaves eof unset, which isOpen() reads, and runs open(url) (pc = "ctor"
\* until it has).
Init ==
  /\ pos = 0
  /\ reconnectTries = 0
  /\ saveURL = ""
  /\ next_chunk = 0
  /\ \/ pc = "idle" /\ eof = FALSE
     \/ pc = "ctor" /\ eof \in BOOLEAN
  /\ size = "unset"
  /\ is_chunked = "unset"
  /\ readImpl = "unset"
  /\ connected = FALSE /\ rx = <<>> /\ wire = <<>>
  /\ frame = NoFrame
  /\ obs = NoObs
  /\ out = <<>>

\* ------------------------------------------------------------ open, close
\* http.end() and stream->stop(): the connection is gone and with it the
\* bytes that were buffered or still on their way.
http_end(m) == [m EXCEPT !.connected = FALSE, !.rx = <<>>, !.wire = <<>>]

\* cb.st(code, string): a status on the status callback.
cb_st(m, s) == [m EXCEPT !.obs.st = Append(@, s)]

\* audioLogger->printf_P(...): a diagnostic on the logger.
audioLogger(m, s) == [m EXCEPT !.obs.st = Append(@, s)]

\* Whether open() returns true when the server answers resp and k packets of
\* the body have arrived by the time getChunkSize() stops waiting.
OpenOk(resp, k) ==
  /\ resp.code = HTTP_CODE_OK
  /\ resp.te = "chunked" => getChunkSize(Arrived(resp.body, k)).val # -1

\* open(url) when the first chunk-size header gave -1: return false.
OpenChunkFailure(m) == m

\* An open() that also clears the end-of-stream flag.
OpenReset_clearsEof(m) == [m EXCEPT !.pos = 0, !.out = <<>>, !.eof = FALSE]

\* open(url) starts with pos = 0: the caller's count of received bytes
\* starts again.
OpenReset(m) == [m EXCEPT !.pos = 0, !.out = <<>>]

\* open(url): what it does to the object and to the transport.
OpenBody(m, url, resp, k) ==
  LET m0 == OpenReset(m)
  IN IF resp.code # HTTP_CODE_OK
     THEN cb_st(http_end(m0), "HTTPFAIL")
     ELSE IF resp.te = "chunked"
     THEN LET cs == getChunkSize(Arrived(resp.body, k))
              m1 == [m0 EXCEPT !.connected = TRUE,
                               !.rx = cs.rest,
                               !.wire = DropN(resp.body, k),
                               !.next_chunk = cs.val]
          IN IF -1 = cs.val
             THEN OpenChunkFailure(m1)
             ELSE [m1 EXCEPT !.is_chunked = "true",
                             !.readImpl = "readChunked",
                             !.size = resp.size,
                             !.saveURL = url]
     ELSE [m0 EXCEPT !.connected = TRUE,
                     !.rx = Arrived(resp.body, k),
                     !.wire = DropN(resp.body, k),
                     !.is_chunked = "false",
                     !.readImpl = "readRegular",
                     !.size = resp.size,
                     !.saveURL = url]

\* bool open(const char *url), called by the user or by the constructor.
open(url, resp, k) ==
  /\ Ready \/ pc = "ctor"
  /\ LET m0 == [Machine EXCEPT !.obs = [NoObs EXCEPT !.op = "open",
                                                   !.ok = OpenOk(resp, k)]]
     IN Becomes([m |-> OpenBody(m0, url, resp, k), pc |-> "idle",
                 frame |-> NoFrame])

\* A close that flips the end-of-stream flag instead of setting it.
CloseBody_toggles(m) == [http_end(m) EXCEPT !.eof = ~@]

\* close(): http.end(); eof = true;
CloseBody(m) == [http_end(m) EXCEPT !.eof = TRUE]

\* bool close()
close ==
  /\ Ready
  /\ LET m0 == [Machine EXCEPT !.obs = [NoObs EXCEPT !.op = "close",
                                                   !.ok = TRUE,
                                                   !.pre = Pre]]
     IN Becomes([m |-> CloseBody(m0), pc |-> "idle", frame |-> NoFrame])

\* A seek that rewinds: it reports failure and sets pos to 0.
seek_rewinds ==
  /\ Ready
  /\ obs' = [NoObs EXCEPT !.op = "seek", !.ok = FALSE,
                          !.st = <<"SEEK_NOT_IMPLEMENTED">>]
  /\ pos' = 0
  /\ UNCHANGED <<size, next_chunk, eof, is_chunked, readImpl, reconnectTries,
                 saveURL, transport, pc, frame, out>>

\* bool seek(int32_t pos, int dir): the arguments are ignored.
seek ==
  /\ Ready
  /\ obs' = [NoObs EXCEPT !.op = "seek", !.ok = FALSE,
                          !.st = <<"SEEK_NOT_IMPLEMENTED">>]
  /\ UNCHANGED <<prog, transport, pc, frame, out>>

\* SetReconnect(tries, delayms): the configuration of the reconnect loop.
SetReconnect(tries) ==
  /\ Ready
  /\ reconnectTries' = tries
  /\ obs' = [NoObs EXCEPT !.op = "SetReconnect"]
  /\ UNCHANGED <<pos, size, next_chunk, eof, is_chunked, readImpl, saveURL,
                 transport, pc, frame, out>>

\* ------------------------------------------------------------ read
\* What the network and the stack do during one step of a call: k packets
\* arrive during the wait of readInternal, k2 during getChunkSize, and junk
\* is what the uninitialised bytes of crlf[] hold.  Only a call that runs
\* readChunked (chunked) reaches getChunkSize and verifyCrlf.
DefaultJunk == <<CR, LF>>
Junks == {DefaultJunk, <<"W", "W">>}
Draws(m, chunked) ==
  IF chunked
  THEN {e \in [k : 0..Len(m.wire), junk : Junks, k2 : 0..Len(m.wire)] :
          e.k + e.k2 <= Len(m.wire)}
  ELSE [k : 0..Len(m.wire), junk : {DefaultJunk}, k2 : {0}]
\* The draws of a call that starts now.
CallDraws == Draws(Machine, readImpl = "readChunked")
NoDraw == [k |-> 0, junk |-> DefaultJunk, k2 |-> 0]
Quiet(e) == e = NoDraw

\* Configuration c, reachable only under the further condition en.
AndEn(c, en) == [c EXCEPT !.en = @ /\ en]

\* The call returns ret to its caller, who takes the first ret bytes of the
\* buffer.
Return(m, ret, en) ==
  [m |-> [m EXCEPT !.obs.ret = ret, !.out = @ \o Take(m.obs.copied, ret)],
   pc |-> "idle", frame |-> NoFrame, en |-> en]

\* Which branch of readChunked a call with len > 0 takes:
\* if (len >= next_chunk) ... else ...
ChunkedPath(len, nc) ==
  IF GeU32(len, nc) THEN "drain" ELSE "part"

\* What readChunked returns when verifyCrlf() fails: return 0.
CrlfFailureResult(copied) == 0

\* A readChunked that goes on to the chunk-size header whatever verifyCrlf
\* returned.
ParsesHeader_always(crlfOk) == TRUE

\* Whether readChunked, with the chunk drained and the delimiter verified,
\* goes on to parse the next chunk-size header.
ParsesHeader(crlfOk) == crlfOk

\* readChunked once readInternal has returned r (r = 0 when next_chunk was 0
\* and it was not called): the bookkeeping of next_chunk and, with the chunk
\* drained, verifyCrlf, getChunkSize and close.
readChunked_tail(m, fr, r, e) ==
  LET nc == m.next_chunk - r
      m1 == [m EXCEPT !.next_chunk = nc]
      got == Take(m.rx, 2)
      rx1 == DropN(m.rx, 2)
      buf == rx1 \o Arrived(m.wire, e.k2)
      junkOk == Len(got) = 2 => e.junk = DefaultJunk
      mBad == audioLogger([m1 EXCEPT !.rx = rx1, !.obs.got = got,
                                     !.obs.crlf = "bad"], "CRLF_ERROR")
      mHdr(cs) == [m1 EXCEPT !.rx = cs.rest,
                         !.obs.got = got,
                         !.wire = DropN(@, e.k2),
                         !.next_chunk = cs.val,
                         !.obs.crlf = IF verifyCrlf(got, e.junk) THEN "ok"
                                      ELSE "bad",
                         !.obs.hdrs = @ + 1,
                         !.obs.hdr = cs.kind,
                         !.obs.waits = IF rx1 = <<>>
                                       THEN @ \cup {"chunk1500"} ELSE @]
  IN IF fr.path = "part" \/ nc # 0
     THEN Return(m1, r, e.k2 = 0 /\ e.junk = DefaultJunk)
     ELSE IF ~ParsesHeader(verifyCrlf(got, e.junk))
     THEN Return(mBad, CrlfFailureResult(r), junkOk /\ e.k2 = 0)
     ELSE CHOOSE c \in {Return(IF cs.val < 0 THEN CloseBody(mHdr(cs))
                                ELSE mHdr(cs), r,
                                junkOk /\ e.k2 <= Len(m.wire)) :
                         cs \in {getChunkSize(buf)}} : TRUE

\* readInternal has returned r to readRegular or to readChunked.
Finish(m, fr, r, e) ==
  IF fr.path = "regular"
  THEN Return(m, r, e.k2 = 0 /\ e.junk = DefaultJunk)
  ELSE readChunked_tail(m, fr, r, e)

\* A no-data branch that forgets the nonBlock test: if (!avail)
RetriesOnNoData_anyMode(nonBlock, avail) == avail = 0

\* Whether the "no data" branch closes and jumps back to retry:
\* if (!nonBlock && !avail)
RetriesOnNoData(nonBlock, avail) == ~nonBlock /\ avail = 0

\* A stream->read that is handed everything available: the line
\* "if (avail < len) len = avail" without its test.
ReadCount_all(avail, len) == avail

\* The number of bytes stream->read is asked for and delivers:
\* if (avail < len) len = avail;
ReadCount(avail, len) == Min(avail, len)

\* pos += read
Advance(p, n) == p + n

RECURSIVE readInternal(_, _, _)

\* readInternal from "if ((size > 0) && (pos >= size)) return 0;" on: the
\* clamp, the wait of the blocking variant, the no-data branch and
\* stream->read.
readInternal_read(m, fr, e) ==
  LET exhausted == m.size > 0 /\ m.pos >= m.size
      len == ClampLen(fr.rlen, m.pos, m.size)
      waiting == ~exhausted /\ ~m.obs.nonBlock /\ Len(m.rx) < len
      buf == m.rx \o Arrived(m.wire, e.k)
      avail == Len(buf)
      n == ReadCount(avail, len)
      kOk == e.k <= Len(m.wire) /\ (e.k > 0 => waiting)
      m1 == [m EXCEPT !.obs.waits = IF waiting THEN @ \cup {"bytes500"}
                                    ELSE @]
      mNoData == [CloseBody(cb_st(m1, "NODATA")) EXCEPT
                    !.obs.retries = @ + 1, !.obs.st = <<>>]
      mRead == [m1 EXCEPT !.rx = DropN(buf, n),
                          !.wire = DropN(@, e.k),
                          !.pos = Advance(@, n),
                          !.obs.copied = Take(buf, n)]
  IN IF exhausted
     THEN AndEn(Finish(m1, fr, 0, e), kOk)
     ELSE IF RetriesOnNoData(m.obs.nonBlock, avail)
     THEN AndEn(readInternal(mNoData, fr, e),
                kOk /\ m.obs.retries < MaxRetries)
     ELSE IF avail = 0
     THEN AndEn(Finish(m1, fr, 0, e), kOk)
     ELSE AndEn(Finish(mRead, fr, n, e), kOk)

\* After the loop: if (!http.connected()) { ...; return 0; }
readInternal_afterLoop(m, fr, e) ==
  IF ~m.connected
  THEN AndEn(Finish(cb_st(m, "UNABLE"), fr, 0, e), e.k = 0)
  ELSE readInternal_read(m, fr, e)

\* A reconnect loop that runs one turn too many: i <= reconnectTries
LoopCondition_inclusive(i, tries) == i <= tries

\* The condition of for (int i = 0; i < reconnectTries; i++)
LoopCondition(i, tries) == i < tries

\* readInternal from the label retry: a disconnected transport is ended and
\* the call enters the reconnect loop (pc = "reconnect") or, with
\* reconnectTries = 0, falls through it.
readInternal(m, fr, e) ==
  IF m.connected
  THEN readInternal_read(m, fr, e)
  ELSE LET m1 == http_end(cb_st(m, "DISCONNECTED"))
       IN IF LoopCondition(0, reconnectTries)
          THEN [m |-> m1, pc |-> "reconnect", frame |-> [fr EXCEPT !.i = 0],
                en |-> Quiet(e)]
          ELSE readInternal_afterLoop(m1, fr, e)

readRegular(m, len, e) ==
  readInternal(m, [path |-> "regular", rlen |-> len, i |-> 0], e)

readChunked(m, len, e) ==
  IF ~(len > 0)
  THEN Return(m, 0, Quiet(e))
  ELSE IF ChunkedPath(len, m.next_chunk) = "part"
  THEN readInternal(m, [path |-> "part", rlen |-> len, i |-> 0], e)
  ELSE IF m.next_chunk # 0
  THEN readInternal(m, [path |-> "drain", rlen |-> m.next_chunk, i |-> 0], e)
  ELSE AndEn(readChunked_tail(m, [path |-> "drain", rlen |-> 0, i |-> 0],
                              0, e),
             e.k = 0)

\* A NULL check that gives up the session.
NullBody_closes(m) == CloseBody(audioLogger(m, "NULLDATA"))

\* if (data==NULL) { audioLogger->printf_P(...); return 0; }
NullBody(m) == audioLogger(m, "NULLDATA")

\* read and readNonBlock: the NULL check and the dispatch through readImpl.
\* A call through a readImpl that no open() has set is not followed.
ReadCall(fn, isNull, len, e) ==
  /\ Ready
  /\ isNull \/ readImpl # "unset"
  /\ LET m0 == [Machine EXCEPT
                  !.obs = [NoObs EXCEPT !.op = fn,
                                        !.nonBlock = (fn = "readNonBlock"),
                                        !.len = len, !.pre = Pre]]
         mNull == NullBody([Machine EXCEPT !.obs = [NoObs EXCEPT !.op = fn]])
         c == IF isNull THEN Return(mNull, 0, Quiet(e))
              ELSE IF readImpl = "readRegular" THEN readRegular(m0, len, e)
              ELSE readChunked(m0, len, e)
     IN \E cfg \in {c} : cfg.en /\ Becomes(cfg)

\* uint32_t read(void *data, uint32_t len)
read(isNull, len, e) == ReadCall("read", isNull, len, e)

\* uint32_t readNonBlock(void *data, uint32_t len)
readNonBlock(isNull, len, e) == ReadCall("readNonBlock", isNull, len, e)

\* One turn of for (int i = 0; i < reconnectTries; i++): the status, the
\* delay and open(saveURL); on success, or after the last turn, the call
\* goes on behind the loop.
readInternal_reconnect(resp, k0) ==
  /\ pc = "reconnect"
  /\ LoopCondition(frame.i, reconnectTries)
  /\ LET m0 == [cb_st(Machine, "RECONNECTING") EXCEPT
                  !.obs.waits = @ \cup {"delay"},
                  !.obs.opens = @ + 1]
         m1 == OpenBody(m0, saveURL, resp, k0)
     IN \E e \in Draws(m1, frame.path # "regular") :
          LET c == IF OpenOk(resp, k0)
                   THEN readInternal_afterLoop(cb_st(m1, "RECONNECTED"),
                                               frame, e)
                   ELSE IF LoopCondition(frame.i + 1, reconnectTries)
                   THEN [m |-> m1, pc |-> "reconnect",
                         frame |-> [frame EXCEPT !.i = @ + 1],
                         en |-> Quiet(e)]
                   ELSE readInternal_afterLoop(m1, frame, e)
          IN \E cfg \in {c} : cfg.en /\ Becomes(cfg)

\* A call has returned: the caller takes its result.
Returned ==
  /\ pc = "idle"
  /\ obs # NoObs
  /\ obs' = NoObs
  /\ UNCHANGED <<prog, transport, pc, frame, out>>

\* ------------------------------------------------------------ the network
\* The next packet of the body arrives between two calls.
Arrive ==
  /\ Ready
  /\ connected
  /\ wire # <<>>
  /\ rx' = rx \o Head(wire)
  /\ wire' = Tail(wire)
  /\ UNCHANGED <<prog, connected, pc, frame, obs, out>>

\* The connection is lost between two calls.
Disconnect ==
  /\ Ready
  /\ connected
  /\ connected' = FALSE
  /\ rx' = <<>>
  /\ wire' = <<>>
  /\ UNCHANGED <<prog, pc, frame, obs, out>>

Next ==
  \/ \E url \in Urls, resp \in Responses :
       \E k \in resp.first..Len(resp.body) : open(url, resp, k)
  \/ close
  \/ seek
  \/ \E tries \in 0..MaxTries : SetReconnect(tries)
  \/ \E len \in 0..MaxLen :
       \/ read(TRUE, len, NoDraw)
       \/ \E e \in CallDraws : read(FALSE, len, e)
  \/ \E len \in 0..MaxLen :
       \/ readNonBlock(TRUE, len, NoDraw)
       \/ \E e \in CallDraws : readNonBlock(FALSE, len, e)
  \/ \E resp \in Responses :
       \E k0 \in resp.first..Len(resp.body) : readInternal_reconnect(resp, k0)
  \/ Returned
  \/ Arrive
  \/ Disconnect

Spec == Init /\ [][Next]_vars

\* ------------------------------------------------------------ Wikipedia
\* One caller, no reconnects, and a server whose chunked body
\* "4\r\nWiki\r\n5\r\npedia\r\n0\r\n\r\n" is in the stream when open() looks at
\* it and that sends nothing after it; the caller reads with positive lengths
\* of its choice.
InitWiki == Init /\ pc = "idle"

NextWiki ==
  \/ \E url \in Urls : open(url, WikiResponse, 1)
  \/ \E len \in 1..WikiMaxLen : \E e \in CallDraws : read(FALSE, len, e)
  \/ \E len \in 1..WikiMaxLen : \E e \in CallDraws : readNonBlock(FALSE, len, e)
  \/ Returned

SpecWiki == InitWiki /\ [][NextWiki]_vars

\* ------------------------------------------------------------ headers
\* One caller, no reconnects, and servers whose second chunk-size line is a
\* chunk size, blank, not hexadecimal, eight digits wide, or late.
InitHeaders == Init /\ pc = "idle"

NextHeaders ==
  \/ \E url \in Urls, resp \in HeaderResponses :
       \E k \in resp.first..Len(resp.body) : open(url, resp, k)
  \/ \E len \in 1..MaxLen : \E e \in CallDraws : read(FALSE, len, e)
  \/ \E len \in 1..MaxLen : \E e \in CallDraws : readNonBlock(FALSE, len, e)
  \/ Returned
  \/ Arrive

SpecHeaders == InitHeaders /\ [][NextHeaders]_vars

\* ------------------------------------------------------------ default
\* The instance made by AudioFileSourceHTTPStream(), with every operation.
InitDefault == Init /\ pc = "idle"

SpecDefault == InitDefault /\ [][Next]_vars

\* ------------------------------------------------------------ properties
\* A read or readNonBlock call that was given a buffer has just returned.
ReadReturned ==
  pc = "idle" /\ obs.op \in {"read", "readNonBlock"} /\ obs.st # <<"NULLDATA">>

\* The call emitted status or diagnostic s since it last passed retry.
Emitted(s) == \E i \in 1..Len(obs.st) : obs.st[i] = s

\* C1: once eof is true, no later read or readNonBlock call returns a byte
\* count greater than 0: a call that started with eof true returns 0.
C1_NoBytesAfterEof ==
  (ReadReturned /\ obs.pre.eof) => obs.ret = 0

\* A read that started with eof true has returned bytes.
C1_BytesAfterEof ==
  ReadReturned /\ obs.pre.eof /\ obs.ret > 0 /\ eof

\* C2: in every state of a session whose declared size is bounded
\* (size > 0), pos <= size.
C2_PosWithinSize ==
  (readImpl # "unset" /\ size > 0) => pos <= size

\* A read of a bounded session has taken pos beyond size.
C2_PosBeyondSize ==
  ReadReturned /\ readImpl # "unset" /\ size > 0 /\ pos > size /\ obs.ret > 0

\* C3: the caller of the "Wikipedia" session has received a prefix of
\* "Wikipedia", in order, nothing duplicated or dropped; every read with a
\* positive length returns at least one byte while fewer than nine have been
\* delivered, and returns 0 once all nine have.
C3_WikiRoundTrip ==
  /\ out = Take(Wikipedia, Len(out))
  /\ ReadReturned =>
       IF Len(out) - obs.ret < Len(Wikipedia) THEN obs.ret > 0
                                              ELSE obs.ret = 0

\* All nine bytes were delivered and the read after them returned 0.
C3_Witness ==
  ReadReturned /\ out = Wikipedia /\ obs.ret = 0 /\ obs.len > 0 /\ eof

\* C4: a single blocking read call performs at most one transparent retry:
\* it jumps back to the label retry at most once.
C4_AtMostOneRetry ==
  ReadReturned => obs.retries <= 1

\* A blocking read has jumped back to retry twice within one call.
C4_SecondRetry ==
  ReadReturned /\ ~obs.nonBlock /\ obs.retries = 2

\* C5: readNonBlock never waits: a non-blocking call enters neither the
\* 500 ms byte wait, nor the 1.5 s chunk-size-header wait, nor a
\* reconnectDelay sleep.
C5_NonBlockNeverWaits ==
  (ReadReturned /\ obs.nonBlock) => obs.waits = {}

\* A non-blocking call drained its chunk, read the delimiter and then waited
\* for a chunk-size header that had not arrived.
C5_NonBlockWaited ==
  /\ ReadReturned /\ obs.nonBlock
  /\ Len(obs.got) = 2 /\ obs.crlf = "ok" /\ "chunk1500" \in obs.waits

PassOpens == Cardinality({i \in 1..Len(obs.st) : obs.st[i] = "RECONNECTING"})

Exhausted == readImpl # "unset" /\ size > 0 /\ pos >= size

\* C7, as claimed: a read or readNonBlock call that started with the
\* transport connected and no byte available, and returns 0 with the declared
\* size not exhausted and no framing error, leaves eof false and the
\* connection up.
C7_ZeroIsNotEof ==
  (/\ ReadReturned /\ obs.len > 0
   /\ obs.pre.connected /\ obs.pre.nodata /\ ~obs.pre.eof
   /\ obs.ret = 0 /\ obs.crlf # "bad" /\ ~Exhausted)
  => isOpen

\* C7, amended: a readNonBlock call that started with the transport
\* connected and no byte available and, in chunked mode, with the current
\* chunk not drained, returns 0, makes no reopen attempt and leaves eof and
\* the connection as they were, so isOpen() is true afterwards when eof was
\* false.
C7_NonBlockZeroIsNotEof ==
  (/\ ReadReturned /\ obs.nonBlock
   /\ obs.pre.connected /\ obs.pre.nodata
   /\ readImpl = "readChunked" => ~obs.pre.drained)
  => /\ obs.ret = 0
     /\ obs.opens = 0
     /\ eof = obs.pre.eof
     /\ connected
     /\ ~obs.pre.eof => isOpen

\* A non-blocking chunked read found nothing available in the middle of a
\* chunk, returned 0 and left the stream open with bytes still to arrive.
C7_Witness ==
  /\ ReadReturned /\ obs.nonBlock /\ obs.len > 0
  /\ obs.pre.connected /\ obs.pre.nodata /\ ~obs.pre.eof
  /\ readImpl = "readChunked" /\ ~obs.pre.drained
  /\ obs.ret = 0 /\ isOpen /\ wire # <<>>

\* C8: in chunked mode, when the chunk is drained and the two bytes
\* verifyCrlf read from the transport are not CR LF, verifyCrlf fails; and
\* whenever it fails the call returns 0, reports the framing error and parses
\* no chunk-size header.
C8_BadDelimiter ==
  /\ (obs.crlf # "none" /\ Len(obs.got) = 2 /\ obs.got # <<CR, LF>>)
       => obs.crlf = "bad"
  /\ obs.crlf = "bad"
       => obs.ret = 0 /\ Emitted("CRLF_ERROR") /\ obs.hdrs = 0

\* A chunked read drained its chunk, read two bytes that are not CR LF and
\* returned 0.
C8_Witness ==
  /\ ReadReturned /\ readImpl = "readChunked"
  /\ obs.crlf = "bad" /\ Len(obs.got) = 2 /\ obs.got # <<CR, LF>>
  /\ obs.ret = 0 /\ Emitted("CRLF_ERROR")

\* C9: every chunked-mode read call returns exactly the number of payload
\* bytes it copied into the caller's buffer.
C9_ReturnsCopied ==
  (ReadReturned /\ readImpl = "readChunked") => obs.ret = Len(obs.copied)

\* A chunked read copied bytes, advanced pos and returned 0.
C9_CopiedButZero ==
  /\ ReadReturned /\ readImpl = "readChunked"
  /\ obs.copied # <<>> /\ obs.ret = 0

\* C10: whenever open(url) returns false the transport has been released:
\* the connection is ended when open returns.
C10_OpenFailureReleases ==
  (obs.op = "open" /\ ~obs.ok) => ~connected

\* open returned false and left the connection up.
C10_FailedOpenConnected ==
  obs.op = "open" /\ ~obs.ok /\ connected

\* C11, as claimed: in regular mode, between two calls, pos is the sum of the
\* byte counts the read calls have returned since the most recent open (out
\* holds the bytes those calls returned: no call returns more than it
\* copied).
C11_PosIsSumOfReturns ==
  (pc = "idle" /\ readImpl = "readRegular") => pos = Len(out)

\* A read call reopened the session in regular mode, read bytes, advanced
\* pos and returned 0: pos is ahead of the counts returned since that open.
C11_PosAheadOfReturns ==
  /\ ReadReturned /\ readImpl = "readRegular" /\ obs.opens > 0
  /\ obs.ret = 0 /\ obs.copied # <<>> /\ pos = Len(obs.copied) /\ out = <<>>

\* C12: seek returns false in every state, whatever its arguments, and
\* leaves pos, size, eof, next_chunk, the mode and the connection unchanged.
C12_SeekLeavesState ==
  [][(obs.op = "none" /\ obs'.op = "seek")
       => /\ ~obs'.ok
          /\ UNCHANGED <<pos, size, eof, next_chunk, is_chunked, readImpl,
                         connected, rx, wire>>]_vars

\* seek has returned false on an open session that had delivered bytes.
C12_Witness ==
  /\ obs.op = "seek" /\ ~obs.ok
  /\ pos > 0 /\ connected /\ ~eof /\ readImpl = "readChunked"

\* C13: close is idempotent.  From any state it returns true, sets eof and
\* ends the connection, so that isOpen() is false, and leaves pos and size
\* alone; called on a session that is already closed it returns true again
\* and leaves the object and the transport exactly as they were.
C13_CloseIdempotent ==
  [][(obs.op = "none" /\ obs'.op = "close")
       => /\ obs'.ok
          /\ eof' /\ ~connected' /\ ~isOpen'
          /\ pos' = pos /\ size' = size
          /\ (eof /\ ~connected) => UNCHANGED <<prog, transport>>]_vars

\* A second close has returned true on a session that was already closed
\* after delivering bytes.
C13_Witness ==
  /\ obs.op = "close" /\ obs.ok
  /\ obs.pre.eof /\ ~obs.pre.connected
  /\ eof /\ ~connected /\ pos > 0 /\ readImpl # "unset"

\* C14: read and readNonBlock called with a NULL buffer return 0 at once and
\* leave pos, eof, next_chunk, the mode and the connection unchanged: nothing
\* is read from the transport, nothing is reopened, nothing is closed.
C14_NullBufferLeavesState ==
  [][(/\ obs.op = "none" /\ obs'.op \in {"read", "readNonBlock"}
      /\ obs'.st = <<"NULLDATA">>)
       => /\ obs'.ret = 0 /\ pc' = "idle"
          /\ obs'.opens = 0 /\ obs'.copied = <<>> /\ obs'.waits = {}
          /\ UNCHANGED <<prog, transport, out>>]_vars

\* A chunked session with bytes waiting in the stream was read with a NULL
\* buffer: the call returned 0 and the bytes are still there.
C14_Witness ==
  /\ pc = "idle" /\ obs.op \in {"read", "readNonBlock"}
  /\ obs.st = <<"NULLDATA">> /\ obs.ret = 0
  /\ readImpl = "readChunked" /\ connected /\ ~eof /\ rx # <<>>
  /\ next_chunk > 0

\* C15, as claimed: in chunked mode next_chunk is never negative.
C15_NextChunkNotNegative ==
  readImpl = "readChunked" => next_chunk >= 0

\* A chunked read drained its chunk, read a valid delimiter, failed to parse
\* the next chunk-size header and returned with next_chunk = -1.
C15_NegativeAfterHeaderFailure ==
  /\ ReadReturned /\ readImpl = "readChunked" /\ obs.pre.impl = "readChunked"
  /\ obs.opens = 0 /\ obs.crlf = "ok" /\ Len(obs.got) = 2 /\ obs.hdrs = 1
  /\ obs.hdr \in {"timeout", "nothex"}
  /\ next_chunk = -1 /\ eof

\* C16, as claimed: a chunked read that has parsed no new chunk-size header
\* has taken no more bytes from the stream than the chunk had left: what is
\* left of the chunk afterwards is not negative.
C16_ReadsWithinChunk ==
  (/\ ReadReturned /\ readImpl = "readChunked"
   /\ obs.pre.impl = "readChunked"
   /\ obs.copied # <<>> /\ obs.hdrs = 0)
  => next_chunk >= 0

\* A chunked read reconnected in the middle of the call, asked the new
\* stream for the two bytes the old chunk had left, and took the payload
\* byte of a one-byte chunk together with the CR of its delimiter.
C16_ReadPastChunk ==
  /\ ReadReturned /\ readImpl = "readChunked" /\ obs.pre.impl = "readChunked"
  /\ Emitted("RECONNECTED") /\ obs.hdrs = 0
  /\ Len(obs.copied) = 2 /\ obs.copied[2] = CR /\ obs.ret = 2
  /\ next_chunk = -1

\* C17, as claimed: the statuses of a reconnect episode inside one read call.
\* The episode starts with "disconnected"; it ends with exactly one of
\* "reconnected" and "unable to reconnect"; and a call that ends with "unable
\* to reconnect" returns 0 and leaves eof as it was before the call.
C17_ReconnectEpisode ==
  ReadReturned =>
    /\ (Emitted("RECONNECTING") \/ Emitted("RECONNECTED") \/ Emitted("UNABLE"))
         => obs.st[1] = "DISCONNECTED"
    /\ Emitted("DISCONNECTED")
         => (Emitted("RECONNECTED") # Emitted("UNABLE"))
    /\ Emitted("UNABLE") => (obs.ret = 0 /\ eof = obs.pre.eof)

\* A read call found the transport disconnected, made its attempts, and went
\* on to read with neither "reconnected" nor "unable to reconnect" emitted:
\* the last open(saveURL) returned false and left the connection up.
C17_NeitherStatus ==
  /\ ReadReturned /\ obs.st # <<>> /\ obs.st[1] = "DISCONNECTED"
  /\ PassOpens = reconnectTries /\ reconnectTries > 0
  /\ ~Emitted("RECONNECTED") /\ ~Emitted("UNABLE")
  /\ connected

\* C18, as claimed: a chunked read that drained its chunk, read a valid
\* delimiter and went on to the next chunk-size header closes the session
\* when there is no header within the wait or the line is not hexadecimal,
\* and never closes it when the line parses as hexadecimal.
C18_HeaderFailureCloses ==
  (ReadReturned /\ obs.crlf = "ok" /\ Len(obs.got) = 2 /\ obs.hdrs = 1)
  => /\ obs.hdr \in {"timeout", "nothex", "blank"}
          => (eof /\ ~connected /\ ~isOpen)
     /\ obs.hdr = "hex" => (~eof /\ connected)

\* The line after a valid delimiter was blank: the read took it for a chunk
\* of size 0 and left the session open.
C18_BlankHeaderKeepsOpen ==
  /\ ReadReturned /\ obs.crlf = "ok" /\ Len(obs.got) = 2 /\ obs.hdrs = 1
  /\ obs.hdr = "blank" /\ next_chunk = 0 /\ isOpen /\ obs.ret = 1

\* C19: on an instance made by the default constructor eof is monotone.  It
\* starts false; no step clears it, so an open(url) or a reconnect that
\* succeeds after a close leaves it true; and it is set only by close(),
\* called by the user or by a read (after no data within 500 ms, or after a
\* chunk-size header that gave a negative size).
C19_EofMonotone ==
  /\ ~eof
  /\ [][/\ eof => eof'
        /\ (~eof /\ eof')
             => \/ obs'.op = "close"
                \/ /\ obs'.op \in {"read", "readNonBlock"}
                   /\ \/ obs'.retries > obs.retries
                      \/ obs'.hdrs > obs.hdrs /\ next_chunk' < 0]_vars

\* open(url) has succeeded on a closed instance: the transport is connected,
\* eof is still true and isOpen() is false.
C19_Witness ==
  /\ obs.op = "open" /\ obs.ok /\ connected /\ eof /\ ~isOpen
  /\ readImpl = "readRegular" /\ rx # <<>>

\* C20: no read or readNonBlock call returns, or stores in the caller's
\* buffer, more bytes than the caller asked for; and a chunked read asked for
\* 0 bytes returns 0 at once and leaves the object, its chunk state and the
\* transport as they were.
C20_AtMostRequested ==
  /\ [](ReadReturned => (obs.ret <= obs.len /\ Len(obs.copied) <= obs.len))
  /\ [][(/\ obs.op = "none" /\ obs'.op \in {"read", "readNonBlock"}
         /\ obs'.st # <<"NULLDATA">>
         /\ obs'.len = 0 /\ readImpl = "readChunked")
          => /\ obs'.ret = 0 /\ pc' = "idle"
             /\ obs'.opens = 0 /\ obs'.waits = {} /\ obs'.hdrs = 0
             /\ UNCHANGED <<prog, transport, out>>]_vars

\* A read asked for one byte of a stream that held more: it returned one
\* byte and the rest is still in the stream.
C20_Witness ==
  /\ ReadReturned /\ obs.len = 1 /\ obs.ret = 1 /\ Len(obs.copied) = 1
  /\ rx # <<>> /\ obs.opens = 0
====
